---- MODULE Spec2Model ----
(***************************************************************************)
(* Model of src/src/scraper_annotated.py: the pagination crawl             *)
(* (scrape_demo_site + parse_company_table) and the cleaning pipeline      *)
(* (clean_dataframe, normalize_phone, normalize_country).                  *)
(*                                                                         *)
(* Strings are sequences of one-character strings.  A resolved path is a   *)
(* record [to, sp]: `to` is the file-system object the path denotes and    *)
(* `sp` the spelling used to write it; Path.resolve() yields spelling 0.   *)
(* The site is static; what a location holds is fixed the first time the   *)
(* crawl touches it.  Frames have object-dtype text columns and a nullable *)
(* Int64 CompanyID column, as pandas builds them from a list of dicts.     *)
(*                                                                         *)
(* Specifications: Spec / FairSpec (the crawl), NormSpec (clean_dataframe  *)
(* applied to a raw frame and again to its own result), PhoneSpec (the     *)
(* Phone step on one cell).                                                *)
(***************************************************************************)
EXTENDS Integers, Sequences, FiniteSets, TLC

\* ------------------------------------------------------------------ bounds
\* Number of file-system locations a next reference can denote.
NLoc == 2
\* Largest number of <tr> elements in one table body.
MaxRows == 2

VARIABLES
    site,       \* the file system below SITE_DIR, revealed when first touched
    current,    \* scrape_demo_site: current (a resolved path, or None)
    seen,       \* scrape_demo_site: seen
    all_rows,   \* scrape_demo_site: all_rows
    pc,         \* "loop" | "returned" | "raised"
    walk,       \* history: the pages read and parsed, in order
    iters,      \* history: number of passes through the loop body
    rawdf,      \* clean_dataframe: the frame handed in
    out1,       \* the frame clean_dataframe returns for rawdf (or its error)
    out2,       \* the frame clean_dataframe returns for out1
    npc,        \* "idle" | "raw" | "clean1" | "clean2"
    phoneRaw,   \* a cell of the Phone column
    phoneOut,   \* that cell after the Phone step of clean_dataframe
    ppc         \* "idle" | "raw" | "done"

crawlVars == <<site, current, seen, all_rows, pc, walk, iters>>
normVars == <<rawdf, out1, out2, npc>>
phoneVars == <<phoneRaw, phoneOut, ppc>>
vars == <<crawlVars, normVars, phoneVars>>

\* ------------------------------------------------------------ file system
Loc == 1..NLoc
Spellings == {0, 1}
None == [to |-> 0, sp |-> 0]
Paths == [to : Loc, sp : Spellings]

\* The path as written, spelling kept.
ResolveVerbatim(p) == p
\* Path.resolve(): every spelling of a location becomes its canonical path.
Resolve(p) == [to |-> p.to, sp |-> 0]

\* <a id="next">: absent, without href, href="" or href=<a path>.
Links ==
    {[k |-> "none", href |-> None], [k |-> "nohref", href |-> None],
     [k |-> "empty", href |-> None]}
    \cup {[k |-> "href", href |-> p] : p \in Paths}

\* The <tr> lists of location l: row i has 5 or 6 cells and the cell texts
\* <<l, i>>.
CellCounts == {5, 6}
TrLists(l) ==
    UNION {{[i \in 1..n |-> [ncols |-> c[i], cells |-> <<l, i>>]] :
              c \in [1..n -> CellCounts]} : n \in 0..MaxRows}

Unknown == [kind |-> "unknown", table |-> FALSE, tbody |-> FALSE,
            trs |-> <<>>, link |-> [k |-> "none", href |-> None]]

\* What location l can hold: nothing, something exists() accepts but
\* read_text cannot read (a directory, bytes that are not UTF-8), or a page.
NoDoc(k) == [kind |-> k, table |-> FALSE, tbody |-> FALSE, trs |-> <<>>,
             link |-> [k |-> "none", href |-> None]]
PageDocs(l) ==
    {[kind |-> "file", table |-> tb[1], tbody |-> tb[2], trs |-> <<>>,
      link |-> ln] : tb \in {<<FALSE, FALSE>>, <<TRUE, FALSE>>}, ln \in Links}
    \cup {[kind |-> "file", table |-> TRUE, tbody |-> TRUE, trs |-> t,
           link |-> ln] : t \in TrLists(l), ln \in Links}
DocsFor(l) == {NoDoc("missing"), NoDoc("unreadable")} \cup PageDocs(l)

\* The contents location l can show on this touch: anything the first time,
\* what it showed before afterwards (the site is static).
Reveal(l, fresh) == IF site[l].kind = "unknown" THEN fresh ELSE {site[l]}

Exists(d) == d.kind \in {"file", "unreadable"}

\* ------------------------------------------------------ parse_company_table
\* Rows kept by the cell-count test, in table order.
RowsOf(trs) ==
    LET keep(r) == r.ncols = 6
        kept == SelectSeq(trs, keep)
    IN  [i \in 1..Len(kept) |-> kept[i].cells]

\* next_link["href"] if next_link and next_link.has_attr("href") else None;
\* the empty string is a value of its own, "" (falsy in the caller).
NextHref(d) == d.link

\* The link is looked up whether or not the table is there.
ParseFallThrough(d) == [rows |-> IF d.table /\ d.tbody THEN RowsOf(d.trs) ELSE <<>>,
                        next |-> NextHref(d)]
parse_company_table(d) ==
    IF ~d.table
    THEN [rows |-> <<>>, next |-> [k |-> "none", href |-> None]]
    ELSE IF ~d.tbody
    THEN [rows |-> <<>>, next |-> [k |-> "none", href |-> None]]
    ELSE [rows |-> RowsOf(d.trs), next |-> NextHref(d)]

\* The cleaning pipeline and the phone step are not running.
NormIdle ==
    /\ rawdf = [idtype |-> "object", rows |-> <<>>]
    /\ out1 = [err |-> FALSE, idtype |-> "object", rows |-> <<>>]
    /\ out2 = [err |-> FALSE, idtype |-> "object", rows |-> <<>>]
    /\ npc = "idle"
PhoneIdle ==
    /\ phoneRaw = <<>>
    /\ phoneOut = <<>>
    /\ ppc = "idle"

\* --------------------------------------------------------- scrape_demo_site
\* current = (current.parent / next_href).resolve() if next_href else None
Advance(next) == IF next.k = "href" THEN Resolve(next.href) ELSE None

\* No cycle guard.
NeverSeen(c, s) == FALSE
\* current in seen
AlreadySeen(c, s) == c \in s

CrawlInit ==
    /\ site = [l \in Loc |-> Unknown]
    /\ \E start_page \in Paths : current = Resolve(start_page)
    /\ seen = {}
    /\ all_rows = <<>>
    /\ pc = "loop"
    /\ walk = <<>>
    /\ iters = 0
    /\ NormIdle
    /\ PhoneIdle

\* while current and current.exists(): the condition is false.
LoopExit ==
    /\ pc = "loop"
    /\ \/ /\ current = None
          /\ UNCHANGED site
       \/ /\ current # None
          /\ \E d \in Reveal(current.to, {NoDoc("missing")}) :
                /\ ~Exists(d)
                /\ site' = [site EXCEPT ![current.to] = d]
    /\ pc' = "returned"
    /\ UNCHANGED <<current, seen, all_rows, walk, iters, normVars, phoneVars>>

\* if current in seen: break
BreakSeen ==
    /\ pc = "loop"
    /\ current # None
    /\ Exists(site[current.to])
    /\ AlreadySeen(current, seen)
    /\ pc' = "returned"
    /\ UNCHANGED <<site, current, seen, all_rows, walk, iters, normVars, phoneVars>>

\* seen.add(current); current.read_text(...) raises.  (iters <= NLoc only
\* keeps the history counter finite: iters < NLoc whenever a new path is met.)
ReadFails ==
    /\ pc = "loop"
    /\ current # None
    /\ ~AlreadySeen(current, seen)
    /\ iters <= NLoc
    /\ \E d \in Reveal(current.to, {NoDoc("unreadable")}) :
          /\ d.kind = "unreadable"
          /\ site' = [site EXCEPT ![current.to] = d]
    /\ seen' = seen \cup {current}
    /\ iters' = iters + 1
    /\ pc' = "raised"
    /\ UNCHANGED <<current, all_rows, walk, normVars, phoneVars>>

\* The new rows put in front.
ExtendFront(acc, rows) == rows \o acc
\* all_rows.extend(rows)
Extend(acc, rows) == acc \o rows

\* One full pass through the loop body.
VisitPage ==
    /\ pc = "loop"
    /\ current # None
    /\ ~AlreadySeen(current, seen)
    /\ iters <= NLoc
    /\ \E d \in Reveal(current.to, PageDocs(current.to)) :
          /\ d.kind = "file"
          /\ site' = [site EXCEPT ![current.to] = d]
          /\ LET p == parse_company_table(d)
             IN  /\ all_rows' = Extend(all_rows, p.rows)
                 /\ current' = Advance(p.next)
    /\ seen' = seen \cup {current}
    /\ walk' = Append(walk, current)
    /\ iters' = iters + 1
    /\ UNCHANGED <<pc, normVars, phoneVars>>

\* ------------------------------------------------------------------ strings
LowerLetters == <<"a", "b", "c", "d", "e", "f", "g", "h", "i", "j", "k", "l", "m",
                  "n", "o", "p", "q", "r", "s", "t", "u", "v", "w", "x", "y", "z">>
UpperLetters == <<"A", "B", "C", "D", "E", "F", "G", "H", "I", "J", "K", "L", "M",
                  "N", "O", "P", "Q", "R", "S", "T", "U", "V", "W", "X", "Y", "Z">>
DigitChars == <<"0", "1", "2", "3", "4", "5", "6", "7", "8", "9">>
IsIn(c, q) == \E i \in 1..Len(q) : q[i] = c
IndexIn(c, q) == CHOOSE i \in 1..Len(q) : q[i] = c
IsLower(c) == IsIn(c, LowerLetters)
IsUpper(c) == IsIn(c, UpperLetters)
IsCased(c) == IsLower(c) \/ IsUpper(c)
IsDigit(c) == IsIn(c, DigitChars)
IsSpace(c) == c \in {" ", "\t", "\n"}
LowerChar(c) == IF IsUpper(c) THEN LowerLetters[IndexIn(c, UpperLetters)] ELSE c
UpperChar(c) == IF IsLower(c) THEN UpperLetters[IndexIn(c, LowerLetters)] ELSE c

\* str.lower()
StrLower(s) == [i \in 1..Len(s) |-> LowerChar(s[i])]
\* str.strip()
RECURSIVE LStrip(_)
LStrip(s) == IF s # <<>> /\ IsSpace(Head(s)) THEN LStrip(Tail(s)) ELSE s
RECURSIVE RStrip(_)
RStrip(s) ==
    IF s # <<>> /\ IsSpace(s[Len(s)]) THEN RStrip(SubSeq(s, 1, Len(s) - 1)) ELSE s
StrStrip(s) == RStrip(LStrip(s))
\* str.title(): a cased character is upper-cased when the character before it
\* is not cased, lower-cased otherwise.
StrTitle(s) ==
    [i \in 1..Len(s) |->
        IF i > 1 /\ IsCased(s[i - 1]) THEN LowerChar(s[i]) ELSE UpperChar(s[i])]
StartsWith(s, pre) == Len(s) >= Len(pre) /\ SubSeq(s, 1, Len(pre)) = pre

\* pd.NA in an object column, and what str() makes of it.
NA == <<"NA">>
NAText == <<"<", "N", "A", ">">>
\* Series.astype(str) on an object column: str(value) for every cell.
AsTypeStr(v) == IF v = NA THEN NAText ELSE v
\* Series.replace({"": pd.NA})
ReplaceEmpty(v) == IF v = <<>> THEN NA ELSE v

\* ---------------------------------------------------------- normalize_phone
PhoneSentinels == {<<"n", "/", "a">>, <<"n", "a">>, <<"n", "o", "n", "e">>}
\* re.sub(r"[^\d+]", "", raw)
KeepDigitsAndPlus(raw) == SelectSeq(raw, LAMBDA c : IsDigit(c) \/ c = "+")

normalize_phone(raw) ==
    IF raw = <<>> \/ StrLower(StrStrip(raw)) \in PhoneSentinels THEN <<>>
    ELSE LET digits == KeepDigitsAndPlus(raw)
         IN  IF digits # <<>> /\ ~StartsWith(digits, <<"+">>)
             THEN IF Len(digits) = 11 /\ StartsWith(digits, <<"1">>)
                  THEN <<"+">> \o digits
                  ELSE IF Len(digits) = 10
                  THEN <<"+", "1">> \o digits
                  ELSE digits
             ELSE digits

\* -------------------------------------------------------- normalize_country
CountryKeys ==
    <<  <<"u", "s", "a">>,
        <<"u", "n", "i", "t", "e", "d", " ", "s", "t", "a", "t", "e", "s">>,
        <<"c", "a", "n", "a", "d", "a">>,
        <<"u", "k">>,
        <<"u", "n", "i", "t", "e", "d", " ", "k", "i", "n", "g", "d", "o", "m">>,
        <<"m", "e", "x", "i", "c", "o">>  >>
UnitedStates == <<"U", "n", "i", "t", "e", "d", " ", "S", "t", "a", "t", "e", "s">>
UnitedKingdom ==
    <<"U", "n", "i", "t", "e", "d", " ", "K", "i", "n", "g", "d", "o", "m">>
CountryLabels ==
    <<  UnitedStates, UnitedStates, <<"C", "a", "n", "a", "d", "a">>,
        UnitedKingdom, UnitedKingdom, <<"M", "e", "x", "i", "c", "o">>  >>

normalize_country(raw) ==
    IF raw = <<>> THEN <<>>
    ELSE LET s == StrStrip(raw)
             key == StrLower(s)
         IN  IF IsIn(key, CountryKeys)
             THEN CountryLabels[IndexIn(key, CountryKeys)]
             ELSE StrTitle(s)

\* --------------------------------------------------------------- to_numeric
\* A float64 value: a ratio num/den (den a power of ten), an infinity or NaN.
Float(k, num, den) == [k |-> k, num |-> num, den |-> den]
NaN == Float("nan", 0, 1)
AllDigits(s) == \A i \in 1..Len(s) : IsDigit(s[i])
RECURSIVE DigitsValue(_)
DigitsValue(s) ==
    IF s = <<>> THEN 0
    ELSE 10 * DigitsValue(SubSeq(s, 1, Len(s) - 1)) + (IndexIn(s[Len(s)], DigitChars) - 1)
RECURSIVE Pow10(_)
Pow10(n) == IF n = 0 THEN 1 ELSE 10 * Pow10(n - 1)
HasSign(s) == s # <<>> /\ Head(s) \in {"+", "-"}
Unsigned(s) == IF HasSign(s) THEN Tail(s) ELSE s
SignOf(s) == IF s # <<>> /\ Head(s) = "-" THEN -1 ELSE 1
Positions(s, cs) == {i \in 1..Len(s) : s[i] \in cs}

\* digits, or digits "." digits with a digit on at least one side.
IsMantissa(m) ==
    \/ m # <<>> /\ AllDigits(m)
    \/ /\ Cardinality(Positions(m, {"."})) = 1
       /\ Len(m) > 1
       /\ AllDigits(SelectSeq(m, LAMBDA c : c # "."))
MantissaValue(m) ==
    IF AllDigits(m) THEN Float("num", DigitsValue(m), 1)
    ELSE LET dot == CHOOSE i \in 1..Len(m) : m[i] = "."
         IN  Float("num", DigitsValue(SelectSeq(m, LAMBDA c : c # ".")),
                   Pow10(Len(m) - dot))
\* The exponent part: "e" or "E", an optional sign, digits.
IsExponent(e) == Unsigned(e) # <<>> /\ AllDigits(Unsigned(e))
Scale(f, e) ==
    LET n == DigitsValue(Unsigned(e))
    IN  IF SignOf(e) = 1 THEN Float("num", f.num * Pow10(n), f.den)
        ELSE Float("num", f.num, f.den * Pow10(n))

\* One cell of an object column under errors="coerce": what the text parses
\* to, and whether it parsed as an integer (no ".", no exponent, no inf/nan).
ParseNumeric(text) ==
    LET s == StrStrip(text)
        u == Unsigned(s)
        l == StrLower(u)
        es == Positions(l, {"e"})
    IN  IF u # <<>> /\ AllDigits(u)
        THEN [int |-> TRUE, f |-> Float("num", SignOf(s) * DigitsValue(u), 1)]
        ELSE IF IsMantissa(u)
        THEN [int |-> FALSE,
              f |-> LET m == MantissaValue(u)
                    IN  Float("num", SignOf(s) * m.num, m.den)]
        ELSE IF l \in {<<"i", "n", "f">>, <<"i", "n", "f", "i", "n", "i", "t", "y">>}
        THEN [int |-> FALSE, f |-> Float("inf", SignOf(s), 1)]
        ELSE IF Cardinality(es) = 1
        THEN LET at == CHOOSE i \in es : TRUE
                 m == SubSeq(l, 1, at - 1)
                 e == SubSeq(l, at + 1, Len(l))
             IN  IF IsMantissa(m) /\ IsExponent(e)
                 THEN [int |-> FALSE,
                       f |-> LET v == Scale(MantissaValue(m), e)
                             IN  Float("num", SignOf(s) * v.num, v.den)]
                 ELSE [int |-> FALSE, f |-> NaN]
        ELSE [int |-> FALSE, f |-> NaN]

\* A cell of the nullable Int64 column: pandas keeps the data and a mask, with
\* data 1 under the mask.
Int64NA == [val |-> 1, mask |-> TRUE]
Int64Of(n) == [val |-> n, mask |-> FALSE]
IsIntegral(f) == f.k = "num" /\ f.num % f.den = 0

\* pd.to_numeric(col, errors="coerce").astype("Int64") on an object column of
\* texts: int64 when every cell parses as an integer, float64 otherwise, and
\* the cast of a float64 column raises TypeError on a value that is not an
\* integer ("cannot safely cast non-equivalent float64 to int64").
CoerceIds(texts) ==
    LET parsed == [i \in 1..Len(texts) |-> ParseNumeric(texts[i])]
        allInt == \A i \in 1..Len(texts) : parsed[i].int
    IN  IF allInt
        THEN [err |-> FALSE,
              col |-> [i \in 1..Len(texts) |-> Int64Of(parsed[i].f.num)]]
        ELSE IF \E i \in 1..Len(texts) :
                    parsed[i].f.k # "nan" /\ ~IsIntegral(parsed[i].f)
        THEN [err |-> TRUE, col |-> <<>>]
        ELSE [err |-> FALSE,
              col |-> [i \in 1..Len(texts) |->
                         IF parsed[i].f.k = "nan" THEN Int64NA
                         ELSE Int64Of(parsed[i].f.num \div parsed[i].f.den)]]

\* ---------------------------------------------------------- drop_duplicates
\* DataFrame.duplicated(subset, keep="first"): factorize each key column
\* (missing values get code -1), combine the codes into one group id per row
\* (get_group_index with xnull=False lifts the -1 codes into a group of their
\* own), and flag every row whose group id occurred before.
FirstIndex(col, i) == CHOOSE j \in 1..i : col[j] = col[i] /\ \A k \in 1..(j - 1) : col[k] # col[i]
\* The rows, up to row `upto`, where a value that is not missing first occurs.
Uniques(col, na, upto) ==
    {j \in 1..upto : ~na[j] /\ FirstIndex(col, j) = j}
\* factorize: `na` flags the missing cells of `col`.
Factorize(col, na) ==
    [codes |-> [i \in 1..Len(col) |->
                  IF na[i] THEN -1
                  ELSE Cardinality(Uniques(col, na, FirstIndex(col, i) - 1))],
     size |-> Cardinality(Uniques(col, na, Len(col)))]
MaybeLift(fz) ==
    IF \E i \in 1..Len(fz.codes) : fz.codes[i] = -1
    THEN [codes |-> [i \in 1..Len(fz.codes) |-> fz.codes[i] + 1], size |-> fz.size + 1]
    ELSE fz
GroupIndex(f1, f2) ==
    LET a == MaybeLift(f1)
        b == MaybeLift(f2)
    IN  [i \in 1..Len(a.codes) |-> a.codes[i] * b.size + b.codes[i]]
\* keep="last"
DuplicatedKeepLast(ids) ==
    [i \in 1..Len(ids) |-> \E j \in (i + 1)..Len(ids) : ids[j] = ids[i]]
Duplicated(ids) ==
    [i \in 1..Len(ids) |-> \E j \in 1..(i - 1) : ids[j] = ids[i]]
RECURSIVE TakeRows(_, _, _)
TakeRows(rows, drop, i) ==
    IF i > Len(rows) THEN <<>>
    ELSE (IF drop[i] THEN <<>> ELSE <<rows[i]>>) \o TakeRows(rows, drop, i + 1)
IsNAInt(c) == c.mask
IsNAObj(v) == v = NA
drop_duplicates(rows) ==
    LET ids == [i \in 1..Len(rows) |-> rows[i].CompanyID]
        emails == [i \in 1..Len(rows) |-> rows[i].Email]
        gid == GroupIndex(
                  Factorize(ids, [i \in 1..Len(rows) |-> IsNAInt(ids[i])]),
                  Factorize(emails, [i \in 1..Len(rows) |-> IsNAObj(emails[i])]))
    IN  TakeRows(rows, Duplicated(gid), 1)

\* ---------------------------------------------------------- clean_dataframe
\* A frame: its rows and the dtype of its CompanyID column ("object": texts;
\* "Int64": nullable integers, which to_numeric and astype leave as they are).
Raised == [err |-> TRUE, idtype |-> "object", rows |-> <<>>]
IdColumn(df) ==
    IF df.idtype = "Int64"
    THEN [err |-> FALSE, col |-> [i \in 1..Len(df.rows) |-> df.rows[i].CompanyID]]
    ELSE CoerceIds([i \in 1..Len(df.rows) |-> df.rows[i].CompanyID])
\* The five column steps, before the duplicates are dropped.
FieldTransforms(df) ==
    LET ids == IdColumn(df)
    IN  IF ids.err THEN Raised
        ELSE [err |-> FALSE, idtype |-> "Int64",
              rows |-> [i \in 1..Len(df.rows) |->
                 [CompanyID |-> ids.col[i],
                  CompanyName |-> StrTitle(StrStrip(AsTypeStr(df.rows[i].CompanyName))),
                  Category |-> StrTitle(StrStrip(AsTypeStr(df.rows[i].Category))),
                  Email |-> ReplaceEmpty(StrLower(StrStrip(AsTypeStr(df.rows[i].Email)))),
                  Phone |-> ReplaceEmpty(normalize_phone(AsTypeStr(df.rows[i].Phone))),
                  Country |-> normalize_country(df.rows[i].Country)]]]
clean_dataframe(df) ==
    LET t == FieldTransforms(df)
    IN  IF t.err THEN Raised
        ELSE [err |-> FALSE, idtype |-> t.idtype, rows |-> drop_duplicates(t.rows)]

\* ------------------------------------------------- inputs of the pipeline
\* Largest number of RawRecords in a frame.
MaxRecords == 2
\* Largest number of digits in a raw phone text.
MaxDigits == 11

IdTexts ==
    {<<"7">>, <<"8">>, <<>>, <<"x">>, <<"1", ".", "5">>, <<"1", "e", "1">>,
     <<"i", "n", "f">>}
EmailTexts == {<<>>, <<"a", "@", "b">>, <<" ", "A", "@", "B">>}
\* CompanyName, Category, Phone, Country of a record.
RestTexts ==
    {<< <<"a", "c", "m", "e", " ", "i", "N", "c">>, <<"i", "t">>,
        <<"5", "-", "1", "2">>, <<"u", "s", "a">> >>,
     << <<" ", "U", "S", "A">>, <<>>, <<"N", "/", "A">>,
        <<"b", "R", "a", "Z", "i", "L", " ">> >>}
RawRecords ==
    {[CompanyID |-> id, CompanyName |-> r[1], Category |-> r[2], Email |-> e,
      Phone |-> r[3], Country |-> r[4]] :
        id \in IdTexts, e \in EmailTexts, r \in RestTexts}
RawFrames ==
    {[idtype |-> "object", rows |-> rs] :
        rs \in UNION {[1..n -> RawRecords] : n \in 0..MaxRecords}}

\* Raw phone texts: an optional prefix, a run of n digits, and one character
\* put in front of the k-th digit of the run; and the texts for "missing".
DigitRun(first, n) == [i \in 1..n |-> IF i = 1 THEN first ELSE "5"]
InsertAt(s, k, c) == SubSeq(s, 1, k - 1) \o c \o SubSeq(s, k, Len(s))
PhoneTexts ==
    UNION {{p \o InsertAt(DigitRun(f, n), k, c) :
              p \in {<<>>, <<"+">>, <<"(">>, <<" ">>},
              f \in {"1", "5"},
              c \in {<<>>, <<"-">>, <<"+">>, <<")", " ">>},
              k \in 1..(n + 1)} : n \in 1..MaxDigits}
    \cup {<<>>, <<"N", "/", "A">>, <<"n", "a">>, <<"N", "o", "n", "e">>,
          <<" ", "n", "/", "a", " ">>, <<"n", "a", "5">>, NAText, <<"-">>}

CrawlIdle ==
    /\ site = [l \in Loc |-> Unknown]
    /\ current = None
    /\ seen = {}
    /\ all_rows = <<>>
    /\ pc = "idle"
    /\ walk = <<>>
    /\ iters = 0

NormInit ==
    /\ CrawlIdle
    /\ PhoneIdle
    /\ rawdf \in RawFrames
    /\ out1 = [err |-> FALSE, idtype |-> "object", rows |-> <<>>]
    /\ out2 = [err |-> FALSE, idtype |-> "object", rows |-> <<>>]
    /\ npc = "raw"
\* clean = clean_dataframe(raw)
Clean ==
    /\ npc = "raw"
    /\ out1' = clean_dataframe(rawdf)
    /\ npc' = "clean1"
    /\ UNCHANGED <<rawdf, out2, crawlVars, phoneVars>>
\* clean_dataframe(clean): the cleaned frame handed in again.
CleanAgain ==
    /\ npc = "clean1"
    /\ ~out1.err
    /\ out2' = clean_dataframe([idtype |-> out1.idtype, rows |-> out1.rows])
    /\ npc' = "clean2"
    /\ UNCHANGED <<rawdf, out1, crawlVars, phoneVars>>
NormNext == Clean \/ CleanAgain
NormSpec == NormInit /\ [][NormNext]_vars

\* The Phone step of clean_dataframe on one cell.
PhoneStep(v) == ReplaceEmpty(normalize_phone(AsTypeStr(v)))
PhoneInit ==
    /\ CrawlIdle
    /\ NormIdle
    /\ phoneRaw \in PhoneTexts
    /\ phoneOut = <<>>
    /\ ppc = "raw"
ApplyPhone ==
    /\ ppc = "raw"
    /\ phoneOut' = PhoneStep(phoneRaw)
    /\ ppc' = "done"
    /\ UNCHANGED <<phoneRaw, crawlVars, normVars>>
\* The cleaned cell goes through the Phone step again.
ApplyPhoneAgain ==
    /\ ppc = "done"
    /\ phoneRaw' = phoneOut
    /\ phoneOut' = PhoneStep(phoneOut)
    /\ ppc' = "again"
    /\ UNCHANGED <<crawlVars, normVars>>
PhoneNext == ApplyPhone \/ ApplyPhoneAgain
PhoneSpec == PhoneInit /\ [][PhoneNext]_vars

Init == CrawlInit
Next == LoopExit \/ BreakSeen \/ ReadFails \/ VisitPage
Spec == Init /\ [][Next]_vars
\* The loop is the only thread of control: a step that can be taken is taken.
FairSpec == Init /\ [][Next]_vars /\ WF_vars(Next)

\* ---------------------------------------------------- crawl: claim helpers
HasBody(d) == d.table /\ d.tbody
\* The records a page at location l holds for the crawl: the cell texts of
\* its six-cell body rows, top to bottom.
RECURSIVE SixCellRows(_, _)
SixCellRows(l, i) ==
    IF i > Len(site[l].trs) THEN <<>>
    ELSE (IF site[l].trs[i].ncols = 6 THEN <<site[l].trs[i].cells>> ELSE <<>>)
         \o SixCellRows(l, i + 1)
PageRecords(l) == IF HasBody(site[l]) THEN SixCellRows(l, 1) ELSE <<>>
RECURSIVE Gathered(_)
Gathered(ps) ==
    IF ps = <<>> THEN <<>>
    ELSE PageRecords(Head(ps).to) \o Gathered(Tail(ps))
Distinct(q) == \A i, j \in 1..Len(q) : q[i] = q[j] => i = j
Occurrences(q, x) == Cardinality({i \in 1..Len(q) : q[i] = x})
WalkPos(l) == CHOOSE i \in 1..Len(walk) : walk[i].to = l
ExistingDocs == {l \in Loc : Exists(site[l])}
CycleExit == pc = "returned" /\ current # None /\ current \in seen

\* C1: whatever the documents and their next references, the crawl loop
\* eventually exits, and it never makes more passes through its body than
\* there are distinct existing documents.
C1_CrawlTerminates ==
    /\ <>(pc # "loop")
    /\ [](iters <= Cardinality(ExistingDocs))
\* A finished crawl that read every location and stopped on a back-reference.
C1_Witness ==
    /\ pc = "returned"
    /\ iters = NLoc
    /\ current \in seen

\* C2 as stated: on a cycle the result is the records of the pages from the
\* entry page up to and including the first occurrence of the repeated page.
C2_PrefixToFirstOccurrence ==
    CycleExit =>
        all_rows = Gathered(SubSeq(walk, 1, WalkPos(current.to)))
\* C2 amended: on a cycle the result is the records of every page read before
\* the repeated locator came up again (the entry page up to and including the
\* page whose next reference closes the cycle), each page once, and the
\* repeated page adds nothing on its second encounter.
C2_CycleReturnsWalkOnce ==
    CycleExit =>
        /\ Distinct([i \in 1..Len(walk) |-> walk[i].to])
        /\ \E k \in 1..Len(walk) : walk[k] = current
        /\ all_rows = Gathered(walk)
        /\ \A i \in 1..Len(all_rows) : Occurrences(all_rows, all_rows[i]) = 1
\* A back-reference to the entry page from a later page that holds records.
C2_Witness ==
    /\ CycleExit
    /\ Len(walk) = 2
    /\ current = walk[1]
    /\ PageRecords(walk[1].to) # <<>>
    /\ PageRecords(walk[2].to) # <<>>

\* C3: a missing or unreadable document reached after the first page never
\* makes the crawl fail: the crawl returns the records gathered so far; a
\* missing entry document gives the empty result.
C3_NeverFails ==
    /\ walk # <<>> => pc # "raised"
    /\ (pc = "returned" /\ walk = <<>>) => all_rows = <<>>
    /\ pc = "returned" => all_rows = Gathered(walk)

\* C8: the returned sequence is the concatenation, in traversal order, of
\* each visited page's records in table-row order.
C8_PageThenRowOrder ==
    pc = "returned" =>
        /\ all_rows = Gathered(walk)
        /\ \A a, b \in 1..Len(all_rows) :
              a < b =>
                \/ WalkPos(all_rows[a][1]) < WalkPos(all_rows[b][1])
                \/ /\ all_rows[a][1] = all_rows[b][1]
                   /\ all_rows[a][2] < all_rows[b][2]
\* Two pages returned, the first with two records and the second with one.
C8_Witness ==
    /\ pc = "returned"
    /\ Len(walk) = 2
    /\ Len(PageRecords(walk[1].to)) = 2
    /\ Len(PageRecords(walk[2].to)) >= 1

\* C9: a page without the table (or without its body) gives no records and
\* no next reference whatever link it holds, so it is the last page read,
\* the crawl does not fail there, and the result is the records of the pages
\* before it.
C9_NoTableEndsCrawl ==
    \A i \in 1..Len(walk) :
        ~HasBody(site[walk[i].to]) =>
            /\ i = Len(walk)
            /\ current = None
            /\ pc # "raised"
            /\ all_rows = Gathered(SubSeq(walk, 1, i - 1))
            /\ \A a \in 1..Len(all_rows) : all_rows[a][1] # walk[i].to
\* The second page read lacks the table body but links on; the crawl returned.
C9_Witness ==
    /\ pc = "returned"
    /\ Len(walk) = 2
    /\ ~HasBody(site[walk[2].to])
    /\ site[walk[2].to].link.k = "href"
    /\ all_rows # <<>>

\* C10: the visited set holds resolved locators and is exactly the set of
\* documents read and parsed so far, each read once.
C10_SeenIsReadSet ==
    /\ \A p \in seen : p = Resolve(p)
    /\ seen = {walk[i] : i \in 1..Len(walk)}
    /\ Distinct([i \in 1..Len(walk) |-> walk[i].to])

\* ------------------------------------------------- pipeline: claim helpers
IsNullId(c) == c.mask
SameId(a, b) == (a.mask /\ b.mask) \/ (~a.mask /\ ~b.mask /\ a.val = b.val)
\* The (company_id, email) pairs agree, a null agreeing with a null.
SameKey(r, q) == SameId(r.CompanyID, q.CompanyID) /\ r.Email = q.Email
\* The n-th smallest member of a set of indexes.
Nth(K, n) == CHOOSE i \in K : Cardinality({j \in K : j <= i}) = n
\* An integer literal: an optional sign and one or more digits.
IsIntLiteral(text) ==
    LET u == Unsigned(StrStrip(text)) IN u # <<>> /\ AllDigits(u)

\* C4: what normalize returns is the field-transformed records with every
\* record removed whose (company_id, email) pair, nulls equal to nulls,
\* occurred earlier: no pair twice, at most one record with both fields
\* null, the first occurrence kept, input order kept.
C4_KeepsFirstOfEachKey ==
    npc # "raw" =>
        LET T == FieldTransforms(rawdf).rows
            K == {i \in 1..Len(T) : \A j \in 1..(i - 1) : ~SameKey(T[j], T[i])}
            out == out1.rows
        IN  /\ Len(out) = Cardinality(K)
            /\ \A n \in 1..Len(out) : out[n] = T[Nth(K, n)]
            /\ \A a, b \in 1..Len(out) : a < b => ~SameKey(out[a], out[b])
            /\ Cardinality({a \in 1..Len(out) :
                              IsNullId(out[a].CompanyID) /\ out[a].Email = NA}) <= 1
\* Two different records with null id and null email went in; the first is
\* the one that came out.
C4_Witness ==
    /\ npc = "clean1"
    /\ ~out1.err
    /\ Len(rawdf.rows) = 2
    /\ rawdf.rows[1].Country # rawdf.rows[2].Country
    /\ Len(out1.rows) = 1
    /\ IsNullId(out1.rows[1].CompanyID)
    /\ out1.rows[1].Email = NA
    /\ out1.rows[1] = FieldTransforms(rawdf).rows[1]

\* C5: normalize never raises, and a company_id text that is not an integer
\* literal becomes a null id on a record that is still there after the field
\* transforms.
C5_NeverRaisesBadIdIsNull ==
    npc # "raw" =>
        /\ ~out1.err
        /\ LET T == FieldTransforms(rawdf).rows
           IN  /\ Len(T) = Len(rawdf.rows)
               /\ \A i \in 1..Len(T) :
                     ~IsIntLiteral(rawdf.rows[i].CompanyID) => IsNullId(T[i].CompanyID)

\* C7: normalize run on its own output returns that output again, record by
\* record and field by field.
C7_Idempotent == npc = "clean2" => out2 = out1

\* The phone algorithm as specified: null for "" and the sentinels; drop
\* every character but the digits and a "+" in leading position; without a
\* "+", 11 digits starting with 1 get "+", 10 digits get "+1"; an empty
\* remainder is null.
SpecifiedPhone(raw) ==
    IF raw = <<>> \/ StrLower(raw) \in PhoneSentinels THEN NA
    ELSE LET body == SelectSeq(raw, LAMBDA c : IsDigit(c) \/ c = "+")
             digits == SelectSeq(raw, IsDigit)
             kept == IF body # <<>> /\ Head(body) = "+" THEN <<"+">> \o digits
                     ELSE digits
             r == IF kept # <<>> /\ Head(kept) # "+" /\ Len(kept) = 11
                                 /\ Head(kept) = "1"
                  THEN <<"+">> \o kept
                  ELSE IF kept # <<>> /\ Head(kept) # "+" /\ Len(kept) = 10
                  THEN <<"+", "1">> \o kept
                  ELSE kept
         IN  IF r = <<>> THEN NA ELSE r
PlusThenDigits(v) ==
    v # <<>> /\ AllDigits(IF Head(v) = "+" THEN Tail(v) ELSE v)

\* C6: the phone field normalize produces is the result of the specified
\* algorithm, hence null or an optional single leading "+" followed by digits
\* only.
C6_PhoneAsSpecified ==
    ppc = "done" =>
        /\ phoneOut = SpecifiedPhone(phoneRaw)
        /\ phoneOut = NA \/ PlusThenDigits(phoneOut)
====
